---- MODULE Spec2Model ----
(***************************************************************************)
(* Model of the meter-readings ETL of sergaym/data-etl: the DataTransformer *)
(* of src/transformation/transformers.py (and its older copy in            *)
(* src/data_transformation/transformers.py) as a state machine over the    *)
(* four input tables and the table returned by the last call; the loaders  *)
(* of the readings come after it.                                          *)
(*                                                                         *)
(* Conventions of the model:                                               *)
(*   - a DataFrame is a sequence of records, one record per row;           *)
(*   - a Python str is a sequence of one-character strings;                *)
(*   - a nullable cell is NULL (<<>>) or Some(v) (<<v>>);                  *)
(*   - a datetime.date is <<year, month, day>>, a Timestamp is             *)
(*     <<year, month, day, hour, minute>>;                                 *)
(*   - agreement_valid_from and agreement_valid_to are datetime64 columns  *)
(*     (raw_agreements declares them DateTime, and the daily aggregation   *)
(*     compares them with dates): a cell is the <<year, month, day>> of a  *)
(*     midnight Timestamp, and a str compared with the column is parsed    *)
(*     the way pandas parses it;                                           *)
(*   - consumption_delta is an exact number (integer units): float         *)
(*     rounding is outside the model;                                      *)
(*   - the cells the data model declares non-null (agreement_valid_from,   *)
(*     interval_start, the ids) are never null in the input tables.        *)
(***************************************************************************)
EXTENDS Integers, Sequences, FiniteSets, TLC

VARIABLES
    df_readings,    \* DataTransformer.df_readings
    df_agreement,   \* DataTransformer.df_agreement
    df_product,     \* DataTransformer.df_product
    df_meterpoint,  \* DataTransformer.df_meterpoint
    interval_start_dtype,   \* the dtype of df_readings['interval_start']
    files,          \* the *.json files of the readings folder, in glob order
    call,           \* the last operation called and its argument
    raised,         \* the exception the last call raised, or "none"
    result,         \* the table the last call returned (<<>> when it raised)
    db,             \* the PostgreSQL tables: raw_meter_readings and the analytics tables
    run             \* the pipeline run in progress: its step, arguments and frames

vars == <<df_readings, df_agreement, df_product, df_meterpoint, interval_start_dtype,
          files, call, raised, result, db, run>>

\* The database and the pipeline run, which the transformer and the loaders
\* called on their own never touch.
pipeline == <<db, run>>

\* The caller's four tables: the transformer keeps references to them, so
\* they are the same objects.  The rows of df_readings hold the instant of
\* interval_start; interval_start_dtype tells whether the cells are str
\* ("object") or Timestamps ("datetime64[ns]").
tables == <<df_readings, df_agreement, df_product, df_meterpoint, interval_start_dtype>>

-----------------------------------------------------------------------------
(* Bounds of the model *)

MaxAgreements == 2
MaxProducts == 2
MaxReadings == 2
MaxFiles == 2

-----------------------------------------------------------------------------
(* Generic helpers *)

NULL == <<>>
Some(v) == <<v>>
isna(cell) == cell = NULL

Range(s) == {s[i] : i \in DOMAIN s}

RECURSIVE SumSeq(_)
SumSeq(s) == IF s = <<>> THEN 0 ELSE Head(s) + SumSeq(Tail(s))

\* All sequences over S of length at most n.
SeqsUpTo(S, n) == UNION {[1..k -> S] : k \in 0..n}

\* Sequences of pairwise distinct elements.
Injective(s) == \A i, j \in DOMAIN s : i # j => s[i] # s[j]

-----------------------------------------------------------------------------
(* Python str: ord(), strftime('%Y-%m-%d'), and pandas' parsing of a date *)

Chars == <<"-", "/", "0", "1", "2", "3", "4", "5", "6", "7", "8", "9">>
Codes == <<45, 47, 48, 49, 50, 51, 52, 53, 54, 55, 56, 57>>

ord(c) == Codes[CHOOSE i \in DOMAIN Chars : Chars[i] = c]

Digit(n) == Chars[n + 3]

Pad2(n) == <<Digit(n \div 10), Digit(n % 10)>>
Pad4(n) == <<Digit(n \div 1000), Digit((n \div 100) % 10), Digit((n \div 10) % 10), Digit(n % 10)>>

\* date.strftime('%Y-%m-%d')
strftime(d) == Pad4(d[1]) \o <<"-">> \o Pad2(d[2]) \o <<"-">> \o Pad2(d[3])

DigitChars == {"0", "1", "2", "3", "4", "5", "6", "7", "8", "9"}
DigitVal(c) == ord(c) - ord("0")

\* The number written by the digits text[i..j].
RECURSIVE Number(_, _, _)
Number(text, i, j) ==
    IF j < i THEN 0 ELSE Number(text, i, j - 1) * 10 + DigitVal(text[j])

\* text is a date written YYYY-MM-DD
IsISODate(text) ==
    /\ Len(text) = 10
    /\ text[5] = "-" /\ text[8] = "-"
    /\ \A i \in {1, 2, 3, 4, 6, 7, 9, 10} : text[i] \in DigitChars
    /\ DigitVal(text[6]) * 10 + DigitVal(text[7]) \in 1..12
    /\ DigitVal(text[9]) * 10 + DigitVal(text[10]) \in 1..31

ParseISODate(text) ==
    <<DigitVal(text[1]) * 1000 + DigitVal(text[2]) * 100 + DigitVal(text[3]) * 10 + DigitVal(text[4]),
      DigitVal(text[6]) * 10 + DigitVal(text[7]),
      DigitVal(text[9]) * 10 + DigitVal(text[10])>>

\* The positions of the separator sep in text.
SeparatorsAt(text, sep) == {i \in DOMAIN text : text[i] = sep}

\* text is three runs of digits separated by two sep.
ThreeNumbers(text, sep) ==
    /\ Cardinality(SeparatorsAt(text, sep)) = 2
    /\ \A i \in DOMAIN text : text[i] \in DigitChars \cup {sep}
    /\ LET a == CHOOSE i \in SeparatorsAt(text, sep) : \A j \in SeparatorsAt(text, sep) : i <= j
           b == CHOOSE i \in SeparatorsAt(text, sep) : \A j \in SeparatorsAt(text, sep) : i >= j
       IN a > 1 /\ b > a + 1 /\ b < Len(text)

Field(text, sep, n) ==
    LET a == CHOOSE i \in SeparatorsAt(text, sep) : \A j \in SeparatorsAt(text, sep) : i <= j
        b == CHOOSE i \in SeparatorsAt(text, sep) : \A j \in SeparatorsAt(text, sep) : i >= j
    IN IF n = 1 THEN Number(text, 1, a - 1)
       ELSE IF n = 2 THEN Number(text, a + 1, b - 1)
       ELSE Number(text, b + 1, Len(text))

NoDate == <<0, 0, 0>>

\* pandas.Timestamp(text), as the comparison of a datetime64 column with a
\* str builds it: the ISO format first, then year-month-day with '-' (the
\* digits need no padding) and month/day/year with '/' (month first);
\* anything else does not parse.
Timestamp(text) ==
    IF IsISODate(text)
    THEN [parses |-> TRUE, date |-> ParseISODate(text)]
    ELSE IF ThreeNumbers(text, "-") /\ Field(text, "-", 2) \in 1..12 /\ Field(text, "-", 3) \in 1..31
    THEN [parses |-> TRUE, date |-> <<Field(text, "-", 1), Field(text, "-", 2), Field(text, "-", 3)>>]
    ELSE IF ThreeNumbers(text, "/") /\ Field(text, "/", 1) \in 1..12 /\ Field(text, "/", 2) \in 1..31
    THEN [parses |-> TRUE, date |-> <<Field(text, "/", 3), Field(text, "/", 1), Field(text, "/", 2)>>]
    ELSE [parses |-> FALSE, date |-> NoDate]

\* The calendar order of dates.
DateKey(d) == (d[1] * 12 + d[2]) * 31 + d[3]

-----------------------------------------------------------------------------
(* Input domains: the tables a DataTransformer is constructed with *)

Meterpoints == {"M1", "M2"}

MeterpointOf(id) == IF id <= 2 THEN "M1" ELSE "M2"
ProductOf(id) == IF id % 2 = 1 THEN "P1" ELSE "P2"

ValidFromDates == {<<2020, 2, 1>>, <<2020, 10, 5>>}
ValidToDates == {<<2020, 10, 5>>}

\* Rows of the agreement table.
AgreementRows(id) ==
    {[agreement_id |-> id,
      meterpoint_id |-> MeterpointOf(id),
      product_id |-> ProductOf(id),
      agreement_valid_from |-> f,
      agreement_valid_to |-> t] :
        f \in ValidFromDates, t \in {NULL} \cup {Some(d) : d \in ValidToDates}}

\* agreement_id is the key of the agreement table; the row order is free.
AgreementTables ==
    {s \in SeqsUpTo(UNION {AgreementRows(id) : id \in 1..MaxAgreements}, MaxAgreements) :
        \A i, j \in DOMAIN s : i # j => s[i].agreement_id # s[j].agreement_id}

\* Rows of the product table: id is its key, product_id may repeat.
ProductRows ==
    {[id |-> 1, product_id |-> "P1", display_name |-> "Fixed", is_variable |-> 0],
     [id |-> 2, product_id |-> "P2", display_name |-> "Variable", is_variable |-> 1],
     [id |-> 3, product_id |-> "P1", display_name |-> "Legacy", is_variable |-> 1]}

\* The product table is in the order of its key.
ProductTables ==
    {s \in SeqsUpTo(ProductRows, MaxProducts) :
        \A i, j \in DOMAIN s : i < j => s[i].id < s[j].id}

Timestamps == {<<2020, 2, 1, 0, 0>>, <<2020, 2, 1, 0, 30>>, <<2020, 10, 5, 0, 0>>}

ReadingRows ==
    {[meterpoint_id |-> m, interval_start |-> t, consumption_delta |-> c] :
        m \in Meterpoints, t \in Timestamps, c \in {1, 2}}

ReadingTables == SeqsUpTo(ReadingRows, MaxReadings)

\* The tables the daily aggregation is run on: readings of both meterpoints
\* in the three slots, agreements and products in the order of their keys.
DeltaOf(t) == IF t[5] = 30 THEN 2 ELSE 1

DailyReadingRows ==
    {[meterpoint_id |-> m, interval_start |-> t, consumption_delta |-> DeltaOf(t)] :
        m \in Meterpoints, t \in Timestamps}

DailyReadingTables == SeqsUpTo(DailyReadingRows, MaxReadings)

\* An agreement of one day, which ends before the later agreements begin.
OneDayAgreement ==
    [agreement_id |-> 1,
     meterpoint_id |-> MeterpointOf(1),
     product_id |-> ProductOf(1),
     agreement_valid_from |-> <<2020, 2, 1>>,
     agreement_valid_to |-> Some(<<2020, 2, 1>>)]

DailyAgreementTables ==
    {s \in SeqsUpTo({OneDayAgreement} \cup UNION {AgreementRows(id) : id \in 1..MaxAgreements},
                    MaxAgreements) :
        \A i, j \in DOMAIN s : i < j => s[i].agreement_id < s[j].agreement_id}

DailyProductTables == {s \in ProductTables : s # <<>> => s[1].id = 1}

SampleReadings ==
    <<[meterpoint_id |-> "M1", interval_start |-> <<2020, 2, 1, 0, 0>>, consumption_delta |-> 1],
      [meterpoint_id |-> "M2", interval_start |-> <<2020, 2, 1, 0, 0>>, consumption_delta |-> 2]>>

SampleAgreements ==
    <<[agreement_id |-> 1, meterpoint_id |-> "M1", product_id |-> "P1",
       agreement_valid_from |-> <<2020, 2, 1>>, agreement_valid_to |-> NULL]>>

SampleProducts ==
    <<[id |-> 1, product_id |-> "P1", display_name |-> "Fixed", is_variable |-> 0]>>

SampleMeterpoints ==
    <<[meterpoint_id |-> "M1", region |-> "North"],
      [meterpoint_id |-> "M2", region |-> "South"]>>

\* The meterpoint tables tried: any of the two meterpoints may be missing.
MeterpointTables ==
    {s \in SeqsUpTo(Range(SampleMeterpoints), Len(SampleMeterpoints)) : Injective(s)}


\* The reference_date arguments tried: date objects, 'YYYY-MM-DD' strings,
\* strings in other formats ('2020-2-1', '05/10/2020', 'abc'), and values
\* of other types.
ReferenceDays == {<<2019, 12, 31>>, <<2020, 10, 5>>}

NoArg == [kind |-> "absent", date |-> NoDate, text |-> <<>>]

ReferenceDates ==
    {[kind |-> "date", date |-> <<2020, 2, 1>>, text |-> <<>>],
     [kind |-> "datetime", date |-> <<2021, 1, 1>>, text |-> <<>>]}
    \cup {[kind |-> "str", date |-> NoDate, text |-> strftime(d)] : d \in ReferenceDays}
    \cup {[kind |-> "str", date |-> NoDate, text |-> t] :
            t \in {<<"2", "0", "2", "0", "-", "2", "-", "1">>,
                   <<"0", "5", "/", "1", "0", "/", "2", "0", "2", "0">>,
                   <<"a", "b", "c">>}}
    \cup {[kind |-> k, date |-> NoDate, text |-> <<>>] : k \in {"int", "NoneType"}}

-----------------------------------------------------------------------------
(* pandas helpers *)

\* DataFrame.sort_values on one integer key column (stable).
Rank(keys, i) ==
    Cardinality({j \in DOMAIN keys : keys[j] < keys[i] \/ (keys[j] = keys[i] /\ j < i)}) + 1

SortValues(df, keys) ==
    [p \in 1..Len(df) |-> df[CHOOSE i \in DOMAIN df : Rank(keys, i) = p]]

RECURSIVE Concat(_)
Concat(ss) == IF ss = <<>> THEN <<>> ELSE Head(ss) \o Concat(Tail(ss))

-----------------------------------------------------------------------------
(* DataTransformer.get_active_agreements *)

\* Lines 50-54: the reference date as a string, or ValueError.
NormalizeReferenceDate(reference_date) ==
    IF reference_date.kind \in {"date", "datetime"}
    THEN [raises |-> FALSE, text |-> strftime(reference_date.date)]
    ELSE IF reference_date.kind # "str"
    THEN [raises |-> TRUE, text |-> <<>>]
    ELSE [raises |-> FALSE, text |-> reference_date.text]

\* Faulty masks: the end of the window ignored; a strict start; no isna() branch.
ActiveMask_IgnoresValidTo(row, reference_date) ==
    DateKey(row.agreement_valid_from) <= DateKey(Timestamp(reference_date).date)

ActiveMask_StrictFrom(row, reference_date) ==
    LET D == Timestamp(reference_date).date
    IN /\ DateKey(row.agreement_valid_from) < DateKey(D)
       /\ \/ isna(row.agreement_valid_to)
          \/ DateKey(row.agreement_valid_to[1]) >= DateKey(D)

ActiveMask_NoIsna(row, reference_date) ==
    LET D == Timestamp(reference_date).date
    IN /\ DateKey(row.agreement_valid_from) <= DateKey(D)
       /\ ~isna(row.agreement_valid_to)
       /\ DateKey(row.agreement_valid_to[1]) >= DateKey(D)

\* Lines 57-63: the boolean mask of the active agreements; the datetime64
\* columns are compared with the Timestamp of the reference string.
ActiveMask(row, reference_date) ==
    LET D == Timestamp(reference_date).date
    IN /\ DateKey(row.agreement_valid_from) <= DateKey(D)
       /\ \/ isna(row.agreement_valid_to)
          \/ DateKey(row.agreement_valid_to[1]) >= DateKey(D)

FilterActive(agreement, reference_date) ==
    SelectSeq(agreement, LAMBDA row : ActiveMask(row, reference_date))

\* Lines 66-70: merge(df_product[[product_id, display_name, is_variable]],
\* on='product_id', how='left'): one row per match in the order of the right
\* table, and one row of nulls when nothing matches.
MergedRow(left, display_name, is_variable) ==
    [agreement_id |-> left.agreement_id,
     meterpoint_id |-> left.meterpoint_id,
     product_id |-> left.product_id,
     agreement_valid_from |-> left.agreement_valid_from,
     agreement_valid_to |-> left.agreement_valid_to,
     display_name |-> display_name,
     is_variable |-> is_variable]

\* Faulty merge: how='inner' drops the rows without a product.
MergeProductRow_Inner(left, product) ==
    LET matches == SelectSeq(product, LAMBDA p : p.product_id = left.product_id)
    IN [k \in DOMAIN matches |->
            MergedRow(left, Some(matches[k].display_name), Some(matches[k].is_variable))]

MergeProductRow(left, product) ==
    LET matches == SelectSeq(product, LAMBDA p : p.product_id = left.product_id)
    IN IF matches = <<>>
       THEN <<MergedRow(left, NULL, NULL)>>
       ELSE [k \in DOMAIN matches |->
                MergedRow(left, Some(matches[k].display_name), Some(matches[k].is_variable))]

MergeProduct(left, product) ==
    Concat([i \in DOMAIN left |-> MergeProductRow(left[i], product)])

\* Lines 73-80: result[final_columns]
FinalColumns(merged) ==
    [i \in DOMAIN merged |->
        [agreement_id |-> merged[i].agreement_id,
         meterpoint_id |-> merged[i].meterpoint_id,
         display_name |-> merged[i].display_name,
         is_variable |-> merged[i].is_variable]]

SortByAgreementId(df) == SortValues(df, [i \in DOMAIN df |-> df[i].agreement_id])

get_active_agreements(agreement, product, reference_date) ==
    SortByAgreementId(FinalColumns(MergeProduct(FilterActive(agreement, reference_date), product)))

GetActiveAgreements(reference_date) ==
    LET norm == NormalizeReferenceDate(reference_date)
    IN /\ call.op # "none"
       /\ call' = [op |-> "get_active_agreements", reference_date |-> reference_date]
       /\ IF norm.raises
          THEN raised' = "ValueError" /\ result' = <<>>
          ELSE IF ~Timestamp(norm.text).parses
          THEN raised' = "TypeError" /\ result' = <<>>
          ELSE /\ raised' = "none"
               /\ result' = get_active_agreements(df_agreement, df_product, norm.text)
       /\ UNCHANGED <<tables, files, pipeline>>

\* src/data_transformation: get_active_agreements_2021, the older copy with the
\* reference date fixed and no sort of the result.
get_active_agreements_2021(agreement, product) ==
    FinalColumns(MergeProduct(FilterActive(agreement, strftime(<<2021, 1, 1>>)), product))

GetActiveAgreements2021 ==
    /\ call.op # "none"
    /\ call' = [op |-> "get_active_agreements_2021", reference_date |-> NoArg]
    /\ raised' = "none"
    /\ result' = get_active_agreements_2021(df_agreement, df_product)
    /\ UNCHANGED <<tables, files, pipeline>>

-----------------------------------------------------------------------------
(* DataTransformer.get_halfhourly_consumption *)

\* The order of datetime64 values: minutes on a common scale.
TsKey(ts) == (((ts[1] * 12 + ts[2]) * 31 + ts[3]) * 24 + ts[4]) * 60 + ts[5]

\* Faulty keys: every slot between the first and the last reading (gap filling).
GroupKeys_GapFilled(readings) ==
    LET seen == {readings[i].interval_start : i \in DOMAIN readings}
        keys == {t \in Timestamps :
                    /\ \E u \in seen : TsKey(u) <= TsKey(t)
                    /\ \E u \in seen : TsKey(t) <= TsKey(u)}
    IN [p \in 1..Cardinality(keys) |->
            CHOOSE t \in keys : Cardinality({u \in keys : TsKey(u) < TsKey(t)}) = p - 1]

\* groupby('interval_start'): the distinct keys, ascending.
GroupKeys(readings) ==
    LET keys == {readings[i].interval_start : i \in DOMAIN readings}
    IN [p \in 1..Cardinality(keys) |->
            CHOOSE t \in keys : Cardinality({u \in keys : TsKey(u) < TsKey(t)}) = p - 1]

GroupRows(readings, t) == SelectSeq(readings, LAMBDA r : r.interval_start = t)

\* Faulty count: 'count' in place of 'nunique'.
nunique_Count(group) == Len(group)

\* 'meterpoint_id': 'nunique'
nunique(group) == Cardinality({group[i].meterpoint_id : i \in DOMAIN group})

\* Faulty total: 'first' in place of 'sum'.
sum_Last(group) ==
    IF group = <<>> THEN 0 ELSE group[Len(group)].consumption_delta

sum_First(group) == IF group = <<>> THEN 0 ELSE group[1].consumption_delta

\* 'consumption_delta': 'sum'
sum(group) == SumSeq([i \in DOMAIN group |-> group[i].consumption_delta])

\* Faulty aggregation: the meterpoints counted over the whole table.
GroupByIntervalStart_GlobalCount(readings) ==
    LET keys == GroupKeys(readings)
    IN [k \in DOMAIN keys |->
            [interval_start |-> keys[k],
             meterpoint_id |-> nunique(readings),
             consumption_delta |-> sum(GroupRows(readings, keys[k]))]]

\* Lines 90-93: groupby(...).agg({...}).reset_index()
GroupByIntervalStart(readings) ==
    LET keys == GroupKeys(readings)
    IN [k \in DOMAIN keys |->
            [interval_start |-> keys[k],
             meterpoint_id |-> nunique(GroupRows(readings, keys[k])),
             consumption_delta |-> sum(GroupRows(readings, keys[k]))]]

\* Lines 96-100: result.columns = [datetime, meterpoint_count, total_consumption_kwh]
RenameHalfhourly(agg) ==
    [k \in DOMAIN agg |->
        [datetime |-> agg[k].interval_start,
         meterpoint_count |-> agg[k].meterpoint_id,
         total_consumption_kwh |-> agg[k].consumption_delta]]

\* Faulty sort: ascending=False.
SortByDatetime_Descending(df) == SortValues(df, [i \in DOMAIN df |-> 0 - TsKey(df[i].datetime)])

\* Line 102: sort_values('datetime').
SortByDatetime(df) == SortValues(df, [i \in DOMAIN df |-> TsKey(df[i].datetime)])

get_halfhourly_consumption(readings) ==
    SortByDatetime(RenameHalfhourly(GroupByIntervalStart(readings)))

\* Faulty operation: the readings are consumed by the call.
GetHalfhourlyConsumption_Consuming ==
    /\ call.op # "none"
    /\ call' = [op |-> "get_halfhourly_consumption", reference_date |-> NoArg]
    /\ raised' = "none"
    /\ result' = get_halfhourly_consumption(df_readings)
    /\ df_readings' = <<>>
    /\ UNCHANGED <<df_agreement, df_product, df_meterpoint, interval_start_dtype, files, pipeline>>

GetHalfhourlyConsumption ==
    /\ call.op # "none"
    /\ call' = [op |-> "get_halfhourly_consumption", reference_date |-> NoArg]
    /\ raised' = "none"
    /\ result' = get_halfhourly_consumption(df_readings)
    /\ UNCHANGED <<tables, files, pipeline>>

-----------------------------------------------------------------------------
(* DataTransformer.get_daily_product_consumption *)

\* Series.dt.date: the calendar date of a Timestamp.
DateOf(ts) == <<ts[1], ts[2], ts[3]>>

\* Lines 112-113: a copy of the readings with the column date.
WithDate(readings) ==
    [i \in DOMAIN readings |->
        [meterpoint_id |-> readings[i].meterpoint_id,
         interval_start |-> readings[i].interval_start,
         consumption_delta |-> readings[i].consumption_delta,
         date |-> DateOf(readings[i].interval_start)]]

\* A row of readings_with_agreement: the agreement columns are null when the
\* meterpoint has no agreement.
ReadingAgreementRow(reading, agreement_id, product_id, valid_from, valid_to) ==
    [meterpoint_id |-> reading.meterpoint_id,
     interval_start |-> reading.interval_start,
     consumption_delta |-> reading.consumption_delta,
     date |-> reading.date,
     agreement_id |-> agreement_id,
     product_id |-> product_id,
     agreement_valid_from |-> valid_from,
     agreement_valid_to |-> valid_to]

\* Faulty merge: one agreement per reading (the first match), no fan-out.
MergeAgreementRow_FirstMatch(reading, agreement) ==
    LET matches == SelectSeq(agreement, LAMBDA a : a.meterpoint_id = reading.meterpoint_id)
    IN IF matches = <<>>
       THEN <<ReadingAgreementRow(reading, NULL, NULL, NULL, NULL)>>
       ELSE <<ReadingAgreementRow(reading, Some(matches[1].agreement_id),
                    Some(matches[1].product_id), Some(matches[1].agreement_valid_from),
                    matches[1].agreement_valid_to)>>

\* Lines 116-120: merge(df_agreement, on='meterpoint_id', how='left'): one row
\* per agreement of the reading's meterpoint, in the order of the agreement
\* table, and one row of nulls when there is none.
MergeAgreementRow(reading, agreement) ==
    LET matches == SelectSeq(agreement, LAMBDA a : a.meterpoint_id = reading.meterpoint_id)
    IN IF matches = <<>>
       THEN <<ReadingAgreementRow(reading, NULL, NULL, NULL, NULL)>>
       ELSE [k \in DOMAIN matches |->
                ReadingAgreementRow(reading, Some(matches[k].agreement_id),
                    Some(matches[k].product_id), Some(matches[k].agreement_valid_from),
                    matches[k].agreement_valid_to)]

MergeAgreement(readings, agreement) ==
    Concat([i \in DOMAIN readings |-> MergeAgreementRow(readings[i], agreement)])

\* Faulty mask: the last day of the window is excluded.
ValidityMask_StrictTo(row) ==
    /\ ~isna(row.agreement_valid_from)
    /\ DateKey(row.agreement_valid_from[1]) <= DateKey(DateOf(row.interval_start))
    /\ \/ isna(row.agreement_valid_to)
       \/ DateKey(row.agreement_valid_to[1]) > DateKey(DateOf(row.interval_start))

\* Lines 123-129: the validity of the agreement on the reading's own date; a
\* null valid_from (no agreement) compares False.
ValidityMask(row) ==
    /\ ~isna(row.agreement_valid_from)
    /\ DateKey(row.agreement_valid_from[1]) <= DateKey(DateOf(row.interval_start))
    /\ \/ isna(row.agreement_valid_to)
       \/ DateKey(row.agreement_valid_to[1]) >= DateKey(DateOf(row.interval_start))

\* Faulty filter: every merged row is kept.
FilterValid_KeepAll(merged) == merged

FilterValid(merged) == SelectSeq(merged, ValidityMask)

\* Lines 132-136: merge(df_product[[product_id, display_name]],
\* on='product_id', how='left').
WithDisplayName(left, display_name) ==
    [meterpoint_id |-> left.meterpoint_id,
     interval_start |-> left.interval_start,
     consumption_delta |-> left.consumption_delta,
     date |-> left.date,
     agreement_id |-> left.agreement_id,
     product_id |-> left.product_id,
     agreement_valid_from |-> left.agreement_valid_from,
     agreement_valid_to |-> left.agreement_valid_to,
     display_name |-> display_name]

MergeDisplayNameRow(left, product) ==
    LET matches == SelectSeq(product, LAMBDA p : Some(p.product_id) = left.product_id)
    IN IF matches = <<>>
       THEN <<WithDisplayName(left, NULL)>>
       ELSE [k \in DOMAIN matches |-> WithDisplayName(left, Some(matches[k].display_name))]

MergeDisplayName(valid, product) ==
    Concat([i \in DOMAIN valid |-> MergeDisplayNameRow(valid[i], product)])

\* The display names in the order of str.
DisplayNames == <<"Fixed", "Legacy", "Variable">>
NameKey(name) == CHOOSE k \in DOMAIN DisplayNames : DisplayNames[k] = name

\* The order of the group keys (display_name, date).
NameDateKey(key) == NameKey(key[1]) * 1000000 + DateKey(key[2])

\* groupby(['display_name', 'date']): the distinct keys, ascending; the rows
\* whose display_name is null belong to no group (dropna=True).
DailyGroupKeys(final) ==
    LET keys == {<<final[i].display_name[1], final[i].date>> :
                    i \in {j \in DOMAIN final : ~isna(final[j].display_name)}}
    IN [p \in 1..Cardinality(keys) |->
            CHOOSE k \in keys :
                Cardinality({u \in keys : NameDateKey(u) < NameDateKey(k)}) = p - 1]

\* Faulty grouping: the rows of a product, whatever their date.
DailyGroupRows_AnyDate(final, key) ==
    SelectSeq(final, LAMBDA r : r.display_name = Some(key[1]))

DailyGroupRows(final, key) ==
    SelectSeq(final, LAMBDA r : r.display_name = Some(key[1]) /\ r.date = key[2])

\* Lines 139-142: groupby(...).agg({...}).reset_index()
GroupByProductDate(final) ==
    LET keys == DailyGroupKeys(final)
    IN [k \in DOMAIN keys |->
            [display_name |-> keys[k][1],
             date |-> keys[k][2],
             meterpoint_id |-> nunique(DailyGroupRows(final, keys[k])),
             consumption_delta |-> sum(DailyGroupRows(final, keys[k]))]]

\* Lines 145-150: result.columns = [product_display_name, date,
\* meterpoint_count, total_consumption_kwh]
RenameDaily(agg) ==
    [k \in DOMAIN agg |->
        [product_display_name |-> Some(agg[k].display_name),
         date |-> agg[k].date,
         meterpoint_count |-> agg[k].meterpoint_id,
         total_consumption_kwh |-> agg[k].consumption_delta]]

\* Faulty sort: by product_display_name alone.
SortByDateProduct_ProductOnly(df) ==
    SortValues(df, [i \in DOMAIN df |-> NameKey(df[i].product_display_name[1])])

\* Line 152: sort_values(['date', 'product_display_name']).
SortByDateProduct(df) ==
    SortValues(df, [i \in DOMAIN df |->
        DateKey(df[i].date) * 10 + NameKey(df[i].product_display_name[1])])

get_daily_product_consumption(readings, agreement, product) ==
    SortByDateProduct(RenameDaily(GroupByProductDate(
        MergeDisplayName(FilterValid(MergeAgreement(WithDate(readings), agreement)), product))))

\* Faulty operation: only the agreements that were active on the reference
\* date of the preceding get_active_agreements call are merged.
GetDailyProductConsumption_ActiveOnly ==
    /\ call.op # "none"
    /\ call' = [op |-> "get_daily_product_consumption", reference_date |-> NoArg]
    /\ raised' = "none"
    /\ result' = get_daily_product_consumption(df_readings,
                    IF call.op = "get_active_agreements" /\ raised = "none"
                    THEN FilterActive(df_agreement,
                            NormalizeReferenceDate(call.reference_date).text)
                    ELSE df_agreement,
                    df_product)
    /\ UNCHANGED <<tables, files, pipeline>>

GetDailyProductConsumption ==
    /\ call.op # "none"
    /\ call' = [op |-> "get_daily_product_consumption", reference_date |-> NoArg]
    /\ raised' = "none"
    /\ result' = get_daily_product_consumption(df_readings, df_agreement, df_product)
    /\ UNCHANGED <<tables, files, pipeline>>

-----------------------------------------------------------------------------
(* The database and the pipeline run before any run *)

\* An empty database: no raw reading, no analytics row.
EmptyDatabase ==
    [raw_meter_readings |-> <<>>,
     active_agreements |-> <<>>,
     halfhourly_consumption |-> <<>>,
     daily_product_consumption |-> <<>>]

\* No pipeline has been started.
NoRun ==
    [entry |-> "none", pc |-> "none", exit_status |-> -1, raised |-> "none",
     reference_date |-> NoArg, written_reference_date |-> NoArg,
     latest_ts |-> NULL, folder |-> <<>>, loaded_folder |-> NULL, steps |-> <<>>,
     readings |-> <<>>, active_agreements |-> <<>>,
     halfhourly_consumption |-> <<>>, daily_product_consumption |-> <<>>]

-----------------------------------------------------------------------------
(* The state machine *)

\* Before DataTransformer(...) is called: the caller's tables.  The dtype of
\* interval_start and the meterpoint table vary with the sample tables.
Init ==
    /\ \/ /\ df_readings = SampleReadings
          /\ df_agreement \in AgreementTables
          /\ df_product \in ProductTables
          /\ df_meterpoint = SampleMeterpoints
          /\ interval_start_dtype = "datetime64[ns]"
       \/ /\ df_readings \in ReadingTables
          /\ df_agreement = SampleAgreements
          /\ df_product = SampleProducts
          /\ df_meterpoint = SampleMeterpoints
          /\ interval_start_dtype = "datetime64[ns]"
       \/ /\ df_readings = SampleReadings
          /\ df_agreement = SampleAgreements
          /\ df_product = SampleProducts
          /\ df_meterpoint \in MeterpointTables
          /\ interval_start_dtype \in {"object", "datetime64[ns]"}
    /\ files = <<>>
    /\ call = [op |-> "none", reference_date |-> NoArg]
    /\ raised = "none"
    /\ result = <<>>
    /\ db = EmptyDatabase
    /\ run = NoRun

\* Lines 23-29: DataTransformer.__init__ keeps the four tables and assigns
\* pd.to_datetime(...) to the interval_start column of the table it was given.
Construct ==
    /\ call.op = "none"
    /\ call' = [op |-> "__init__", reference_date |-> NoArg]
    /\ interval_start_dtype' = "datetime64[ns]"
    /\ UNCHANGED <<df_readings, df_agreement, df_product, df_meterpoint, files, raised, result,
                 pipeline>>

Next ==
    \/ Construct
    \/ \E reference_date \in ReferenceDates : GetActiveAgreements(reference_date)
    \/ GetActiveAgreements2021
    \/ GetHalfhourlyConsumption
    \/ GetDailyProductConsumption

Spec == Init /\ [][Next]_vars

\* The daily aggregation alone, on a transformer constructed with readings,
\* agreements and products that vary together.
InitDaily ==
    /\ df_readings \in DailyReadingTables
    /\ df_agreement \in DailyAgreementTables
    /\ df_product \in DailyProductTables
    /\ df_meterpoint = SampleMeterpoints
    /\ interval_start_dtype = "datetime64[ns]"
    /\ files = <<>>
    /\ call = [op |-> "__init__", reference_date |-> NoArg]
    /\ raised = "none"
    /\ result = <<>>
    /\ db = EmptyDatabase
    /\ run = NoRun

NextDaily == GetDailyProductConsumption

SpecDaily == InitDaily /\ [][NextDaily]_vars

-----------------------------------------------------------------------------
(* load_json_readings: src/extraction/json_loader.py and the older
   src/data_ingestion/json_loader.py *)

ExpectedColumns == {"interval_start", "consumption_delta", "meterpoint_id"}

\* The contents a *.json file may have.  parses: json.load succeeds;
\* has_keys: the object has the keys 'columns' and 'data'; columns and data
\* are the two lists (a row of data is a tuple of cells, by position).
FileContents ==
    {[parses |-> FALSE, has_keys |-> FALSE, columns |-> <<>>, data |-> <<>>],
     [parses |-> TRUE, has_keys |-> FALSE, columns |-> <<>>, data |-> <<>>],
     [parses |-> TRUE, has_keys |-> TRUE,
      columns |-> <<"interval_start", "consumption_delta", "meterpoint_id">>,
      data |-> <<<< <<2020, 2, 1, 0, 30>>, 2, "M1">>, << <<2020, 2, 1, 0, 0>>, 1, "M1">>>>],
     [parses |-> TRUE, has_keys |-> TRUE,
      columns |-> <<"meterpoint_id", "interval_start", "consumption_delta">>,
      data |-> <<<<"M2", <<2020, 2, 1, 0, 0>>, 1>>, <<"M1", <<2020, 10, 5, 0, 0>>, 1>>>>],
     [parses |-> TRUE, has_keys |-> TRUE,
      columns |-> <<"interval_start", "consumption_delta", "meter_id">>,
      data |-> <<<< <<2020, 2, 1, 0, 0>>, 2, "M2">>>>],
     [parses |-> TRUE, has_keys |-> TRUE,
      columns |-> <<"timestamp", "consumption_delta", "meterpoint_id">>,
      data |-> <<<< <<2020, 10, 5, 0, 0>>, 2, "M1">>>>],
     [parses |-> TRUE, has_keys |-> TRUE,
      columns |-> <<"interval_start", "consumption_delta", "meterpoint_id">>,
      data |-> <<<< <<2020, 2, 1, 0, 0>>, 1>>>>]}

Folders == SeqsUpTo(FileContents, MaxFiles)

\* pd.DataFrame(data, columns=columns): the rows as records of non-null
\* cells; it raises when a row has not one cell per column.
DataFrameRaises(file) == \E k \in DOMAIN file.data : Len(file.data[k]) # Len(file.columns)

DataFrame(file) ==
    [k \in DOMAIN file.data |->
        [c \in Range(file.columns) |->
            Some(file.data[k][CHOOSE n \in DOMAIN file.columns : file.columns[n] = c])]]

\* data_ingestion/json_loader.py, lines 18-39.
validate_json_structure(file) ==
    /\ file.has_keys
    /\ Range(file.columns) = ExpectedColumns

\* extraction/json_loader.py, lines 44-65: the files whose frame is appended
\* to all_readings; the others are logged and skipped.
Appended(folder) ==
    SelectSeq(folder, LAMBDA file : file.parses /\ file.has_keys /\ ~DataFrameRaises(file))

\* data_ingestion/json_loader.py, lines 70-89.
AppendedValidated(folder) ==
    SelectSeq(folder, LAMBDA file :
        file.parses /\ validate_json_structure(file) /\ ~DataFrameRaises(file))

\* pd.concat(frames, ignore_index=True): the rows of the frames in order, over
\* the union of their columns, null where a frame has no such column.
concat(frames) ==
    LET rows == Concat(frames)
        columns == UNION {DOMAIN rows[k] : k \in DOMAIN rows}
    IN [k \in DOMAIN rows |->
            [c \in columns |-> IF c \in DOMAIN rows[k] THEN rows[k][c] ELSE NULL]]

\* Whether combined_df['interval_start'] exists: with no such column the
\* conversion raises KeyError.
HasIntervalStart(frames) ==
    \E f \in DOMAIN frames : \E k \in DOMAIN frames[f] : "interval_start" \in DOMAIN frames[f][k]

\* The order of the meterpoint ids (str) and of the timestamps within them.
MeterpointKey(m) == IF m = "M1" THEN 1 ELSE 2
TimestampRank(ts) == Cardinality({u \in Timestamps : TsKey(u) < TsKey(ts)})

\* sort_values(['meterpoint_id', 'interval_start'], inplace=True)
SortByMeterpointAndStart(df) ==
    SortValues(df, [i \in DOMAIN df |->
        MeterpointKey(df[i]["meterpoint_id"][1]) * 10 + TimestampRank(df[i]["interval_start"][1])])

\* The outcome of a loader for the frames it has appended.
Combine(frames) ==
    IF frames = <<>> THEN [raised |-> "ValueError", table |-> <<>>]
    ELSE IF ~HasIntervalStart(frames) THEN [raised |-> "KeyError", table |-> <<>>]
    ELSE [raised |-> "none", table |-> concat(frames)]

Frames(appended) == [f \in DOMAIN appended |-> DataFrame(appended[f])]

\* extraction/json_loader.py: load_json_readings(folder_path)
LoadJsonReadings ==
    LET outcome == Combine(Frames(Appended(files)))
    IN /\ call' = [op |-> "extraction.load_json_readings", reference_date |-> NoArg]
       /\ raised' = outcome.raised
       /\ result' = outcome.table
       /\ UNCHANGED <<tables, files, pipeline>>

\* data_ingestion/json_loader.py: load_json_readings(folder_path, sort_data)
LoadJsonReadingsValidated(sort_data) ==
    LET outcome == Combine(Frames(AppendedValidated(files)))
    IN /\ call' = [op |-> "data_ingestion.load_json_readings", reference_date |-> NoArg]
       /\ raised' = outcome.raised
       /\ result' = IF sort_data /\ outcome.raised = "none"
                     THEN SortByMeterpointAndStart(outcome.table)
                     ELSE outcome.table
       /\ UNCHANGED <<tables, files, pipeline>>

\* The loaders alone, on the folders of at most MaxFiles files.
InitLoad ==
    /\ df_readings = SampleReadings
    /\ df_agreement = SampleAgreements
    /\ df_product = SampleProducts
    /\ df_meterpoint = SampleMeterpoints
    /\ interval_start_dtype = "datetime64[ns]"
    /\ files \in Folders
    /\ call = [op |-> "none", reference_date |-> NoArg]
    /\ raised = "none"
    /\ result = <<>>
    /\ db = EmptyDatabase
    /\ run = NoRun

NextLoad ==
    \/ LoadJsonReadings
    \/ \E sort_data \in BOOLEAN : LoadJsonReadingsValidated(sort_data)

SpecLoad == InitLoad /\ [][NextLoad]_vars

-----------------------------------------------------------------------------
(* Vocabulary of the properties *)

ValidReference(reference_date) ==
    \/ reference_date.kind \in {"date", "datetime"}
    \/ reference_date.kind = "str" /\ IsISODate(reference_date.text)

ReferenceDay(reference_date) ==
    IF reference_date.kind = "str" THEN ParseISODate(reference_date.text) ELSE reference_date.date

\* The agreement is active on day D: valid_from <= D and (valid_to is null or valid_to >= D).
ActiveOn(agreement, D) ==
    /\ DateKey(agreement.agreement_valid_from) <= DateKey(D)
    /\ \/ agreement.agreement_valid_to = NULL
       \/ DateKey(agreement.agreement_valid_to[1]) >= DateKey(D)

ActiveCall ==
    /\ call.op = "get_active_agreements"
    /\ ValidReference(call.reference_date)

CalledDay == ReferenceDay(call.reference_date)

RowsOf(agreement_id) == {i \in DOMAIN result : result[i].agreement_id = agreement_id}

UniqueProductIds ==
    \A i, j \in DOMAIN df_product : i # j => df_product[i].product_id # df_product[j].product_id

HasProduct(agreement) ==
    \E k \in DOMAIN df_product : df_product[k].product_id = agreement.product_id

-----------------------------------------------------------------------------
(* Properties of get_active_agreements *)

\* C1: every row returned by get_active_agreements(D), D a valid reference
\* date, is the row of an agreement with valid_from <= D and (valid_to null or
\* valid_to >= D); no agreement outside its validity window is returned.
C1_ReturnedRowsAreActive ==
    (ActiveCall /\ raised = "none") =>
        \A i \in DOMAIN result :
            \E j \in DOMAIN df_agreement :
                /\ df_agreement[j].agreement_id = result[i].agreement_id
                /\ df_agreement[j].meterpoint_id = result[i].meterpoint_id
                /\ ActiveOn(df_agreement[j], CalledDay)

\* C1 witness: a call that returned an agreement and left out another one
\* that has ended before the reference date.
C1_Witness ==
    /\ ActiveCall /\ raised = "none"
    /\ result # <<>>
    /\ \E j \in DOMAIN df_agreement :
            /\ DateKey(df_agreement[j].agreement_valid_from) <= DateKey(CalledDay)
            /\ ~ActiveOn(df_agreement[j], CalledDay)

\* C2: with product_id unique in the product table, the output of
\* get_active_agreements(D) has exactly one row for each agreement active on
\* D and no other row.
C2_ExactlyTheActiveAgreements ==
    (ActiveCall /\ raised = "none" /\ UniqueProductIds) =>
        /\ \A j \in DOMAIN df_agreement :
                Cardinality(RowsOf(df_agreement[j].agreement_id)) =
                    IF ActiveOn(df_agreement[j], CalledDay) THEN 1 ELSE 0
        /\ \A i \in DOMAIN result :
                \E j \in DOMAIN df_agreement :
                    df_agreement[j].agreement_id = result[i].agreement_id

\* C2 witness: two agreements, one active from the reference date itself and
\* one not active, against a product table with unique product ids.
C2_Witness ==
    /\ ActiveCall /\ raised = "none" /\ UniqueProductIds
    /\ df_product # <<>>
    /\ Len(df_agreement) = 2
    /\ Len(result) = 1
    /\ \E j \in DOMAIN df_agreement :
            /\ df_agreement[j].agreement_valid_from = CalledDay
            /\ RowsOf(df_agreement[j].agreement_id) # {}

\* C3: an agreement whose valid_to is null is returned by
\* get_active_agreements(D) exactly when D >= valid_from.
C3_NullValidToIsOpenEnded ==
    (ActiveCall /\ raised = "none") =>
        \A j \in DOMAIN df_agreement :
            df_agreement[j].agreement_valid_to = NULL =>
                ((RowsOf(df_agreement[j].agreement_id) # {}) <=>
                    (DateKey(CalledDay) >=
                        DateKey(df_agreement[j].agreement_valid_from)))

\* C3 witness: two open-ended agreements, one starting on the reference date
\* and returned, one starting after it and left out.
C3_Witness ==
    /\ ActiveCall /\ raised = "none"
    /\ \E j, k \in DOMAIN df_agreement :
            /\ df_agreement[j].agreement_valid_to = NULL
            /\ df_agreement[k].agreement_valid_to = NULL
            /\ DateKey(df_agreement[j].agreement_valid_from) = DateKey(CalledDay)
            /\ DateKey(df_agreement[k].agreement_valid_from) > DateKey(CalledDay)
            /\ RowsOf(df_agreement[j].agreement_id) # {}
            /\ RowsOf(df_agreement[k].agreement_id) = {}

\* C4: an active agreement whose product_id matches no row of the product
\* table is returned exactly once, with display_name and is_variable null,
\* and the call raises nothing.
C4_UnmatchedProductYieldsNulls ==
    ActiveCall =>
        /\ raised = "none"
        /\ \A j \in DOMAIN df_agreement :
                (ActiveOn(df_agreement[j], CalledDay) /\ ~HasProduct(df_agreement[j])) =>
                    /\ Cardinality(RowsOf(df_agreement[j].agreement_id)) = 1
                    /\ \A i \in RowsOf(df_agreement[j].agreement_id) :
                            /\ result[i].display_name = NULL
                            /\ result[i].is_variable = NULL

\* C4 witness: a non-empty product table, one active agreement with a
\* product in it and one active agreement whose product is missing.
C4_Witness ==
    /\ ActiveCall /\ raised = "none"
    /\ \E j, k \in DOMAIN df_agreement :
            /\ ActiveOn(df_agreement[j], CalledDay) /\ ~HasProduct(df_agreement[j])
            /\ ActiveOn(df_agreement[k], CalledDay) /\ HasProduct(df_agreement[k])
            /\ \E i \in RowsOf(df_agreement[j].agreement_id) : result[i].display_name = NULL
            /\ \E i \in RowsOf(df_agreement[k].agreement_id) : result[i].display_name # NULL

\* The four columns of the active-agreements table.
ActiveAgreementColumns == {"agreement_id", "meterpoint_id", "display_name", "is_variable"}

SortedByAgreementId ==
    \A i, j \in DOMAIN result : i < j => result[i].agreement_id <= result[j].agreement_id

\* C5: the active-agreements output (of get_active_agreements and of
\* get_active_agreements_2021) has exactly the columns agreement_id,
\* meterpoint_id, display_name, is_variable, and its rows are in ascending
\* order of agreement_id whatever the order of the agreement table.
C5_ColumnsAndAscendingOrder ==
    (call.op \in {"get_active_agreements", "get_active_agreements_2021"} /\ raised = "none") =>
        /\ \A i \in DOMAIN result : DOMAIN result[i] = ActiveAgreementColumns
        /\ SortedByAgreementId

\* C5, the part that holds: the property for get_active_agreements alone.
C5_CurrentModuleOnly ==
    (call.op = "get_active_agreements" /\ raised = "none") =>
        /\ \A i \in DOMAIN result : DOMAIN result[i] = ActiveAgreementColumns
        /\ SortedByAgreementId

\* C6: get_active_agreements called with a reference_date that is not a
\* date, a datetime or a 'YYYY-MM-DD' string raises a type/format error and
\* returns no table.
C6_InvalidReferenceDateRaises ==
    (call.op = "get_active_agreements" /\ ~ValidReference(call.reference_date)) =>
        /\ raised \in {"ValueError", "TypeError"}
        /\ result = <<>>

\* C6, the part that holds: a reference_date that is no str, date or datetime
\* raises ValueError before the filter.
C6_WrongTypeRaises ==
    (call.op = "get_active_agreements" /\ call.reference_date.kind \notin {"str", "date", "datetime"}) =>
        /\ raised = "ValueError"
        /\ result = <<>>

-----------------------------------------------------------------------------
(* Properties of get_halfhourly_consumption *)

RECURSIVE SumOver(_, _)
SumOver(S, f) ==
    IF S = {} THEN 0
    ELSE LET x == CHOOSE y \in S : TRUE IN f[x] + SumOver(S \ {x}, f)

HalfhourlyCall == call.op = "get_halfhourly_consumption" /\ raised = "none"

ReadingsAt(t) == {j \in DOMAIN df_readings : df_readings[j].interval_start = t}

Delta == [j \in DOMAIN df_readings |-> df_readings[j].consumption_delta]

Slots == {df_readings[j].interval_start : j \in DOMAIN df_readings}

\* C7: conservation: the total_consumption_kwh of all rows of
\* get_halfhourly_consumption add up to the consumption_delta of all readings.
C7_Conservation ==
    HalfhourlyCall =>
        SumOver(DOMAIN result, [i \in DOMAIN result |-> result[i].total_consumption_kwh])
            = SumOver(DOMAIN df_readings, Delta)

\* C7 witness: readings in two different slots, so two rows are added up.
C7_Witness ==
    /\ HalfhourlyCall
    /\ Len(df_readings) >= 2
    /\ Len(result) = 2
    /\ result[1].total_consumption_kwh # result[2].total_consumption_kwh

\* C8: in every row of get_halfhourly_consumption, meterpoint_count is at
\* most the number of readings whose interval_start is the row's datetime.
C8_CountAtMostReadings ==
    HalfhourlyCall =>
        \A i \in DOMAIN result :
            result[i].meterpoint_count <= Cardinality(ReadingsAt(result[i].datetime))

\* C8 witness: a slot with two readings of one meterpoint (count below the
\* number of readings).
C8_Witness ==
    /\ HalfhourlyCall
    /\ \E i \in DOMAIN result :
            /\ result[i].meterpoint_count = 1
            /\ Cardinality(ReadingsAt(result[i].datetime)) = 2

\* C9: for each distinct interval_start t of the readings the output has
\* exactly one row (t, c, s), c the number of distinct meterpoint_id among
\* the readings at t and s the sum of their consumption_delta.
C9_OneRowPerSlot ==
    HalfhourlyCall =>
        \A t \in Slots :
            LET rows == {i \in DOMAIN result : result[i].datetime = t}
            IN /\ Cardinality(rows) = 1
               /\ \A i \in rows :
                    /\ result[i].meterpoint_count =
                            Cardinality({df_readings[j].meterpoint_id : j \in ReadingsAt(t)})
                    /\ result[i].total_consumption_kwh = SumOver(ReadingsAt(t), Delta)

\* C9 witness: two readings of the same meterpoint in one slot: they count
\* once and both add to the total.
C9_Witness ==
    /\ HalfhourlyCall
    /\ Len(df_readings) = 2
    /\ df_readings[1].meterpoint_id = df_readings[2].meterpoint_id
    /\ df_readings[1].interval_start = df_readings[2].interval_start
    /\ df_readings[1].consumption_delta # df_readings[2].consumption_delta
    /\ Len(result) = 1
    /\ result[1].meterpoint_count = 1
    /\ result[1].total_consumption_kwh = 3

\* C10: no gap filling: the datetime values of the output are exactly the
\* distinct interval_start values of the readings, and every output row has
\* at least one reading.
C10_NoGapFilling ==
    HalfhourlyCall =>
        /\ {result[i].datetime : i \in DOMAIN result} = Slots
        /\ \A i \in DOMAIN result : ReadingsAt(result[i].datetime) # {}

\* C10 witness: readings in the first and the last slot and none in the slot
\* between them; the output has the two rows only.
C10_Witness ==
    /\ HalfhourlyCall
    /\ Slots = {<<2020, 2, 1, 0, 0>>, <<2020, 10, 5, 0, 0>>}
    /\ Len(result) = 2

\* C11: the rows of get_halfhourly_consumption are in strictly ascending
\* order of datetime, whatever the order of the readings.
C11_StrictlyAscendingDatetime ==
    HalfhourlyCall =>
        \A i, j \in DOMAIN result :
            i < j => TsKey(result[i].datetime) < TsKey(result[j].datetime)

\* C11 witness: the readings are given latest first, and the output has
\* the two slots earliest first.
C11_Witness ==
    /\ HalfhourlyCall
    /\ Len(df_readings) = 2
    /\ TsKey(df_readings[1].interval_start) > TsKey(df_readings[2].interval_start)
    /\ Len(result) = 2
    /\ result[1].datetime = df_readings[2].interval_start
    /\ result[2].datetime = df_readings[1].interval_start

-----------------------------------------------------------------------------
(* Properties of get_daily_product_consumption *)

DailyCall == call.op = "get_daily_product_consumption" /\ raised = "none"

ReadingDate(i) == DateOf(df_readings[i].interval_start)

\* Agreement j is an agreement of the meterpoint of reading i.
SameMeterpoint(i, j) == df_agreement[j].meterpoint_id = df_readings[i].meterpoint_id

\* The (reading, valid agreement) matches: agreement j belongs to the
\* meterpoint of reading i and is valid on the date of reading i.
ValidMatches ==
    {m \in (DOMAIN df_readings) \X (DOMAIN df_agreement) :
        SameMeterpoint(m[1], m[2]) /\ ActiveOn(df_agreement[m[2]], ReadingDate(m[1]))}

\* The matches of a product display name on a date, one for each row of the
\* product table that gives the agreement's product that name.
MatchesOf(name, d) ==
    {t \in ValidMatches \X (DOMAIN df_product) :
        /\ ReadingDate(t[1][1]) = d
        /\ df_product[t[2]].product_id = df_agreement[t[1][2]].product_id
        /\ df_product[t[2]].display_name = name}

MatchedNames == {df_product[k].display_name : k \in DOMAIN df_product}
ReadingDates == {ReadingDate(i) : i \in DOMAIN df_readings}

DailyRows(name, d) ==
    {i \in DOMAIN result : result[i].product_display_name = Some(name) /\ result[i].date = d}

MatchDelta(S) == [t \in S |-> df_readings[t[1][1]].consumption_delta]

\* C12: a reading contributes to the daily output only through an agreement
\* of its own meterpoint_id that is valid on the reading's own date,
\* valid_from <= date and (valid_to null or valid_to >= date), both ends
\* inclusive: every output row has such a match, every such match with a
\* product row has its output row, and no row holds more than its matches.
C12_OnlyThroughValidAgreements ==
    DailyCall =>
        /\ \A i \in DOMAIN result :
                /\ result[i].product_display_name # NULL
                /\ MatchesOf(result[i].product_display_name[1], result[i].date) # {}
                /\ result[i].total_consumption_kwh <=
                        SumOver(MatchesOf(result[i].product_display_name[1], result[i].date),
                                MatchDelta(MatchesOf(result[i].product_display_name[1], result[i].date)))
        /\ \A name \in MatchedNames, d \in ReadingDates :
                MatchesOf(name, d) # {} => DailyRows(name, d) # {}

\* C12 witness: a reading on the last day of one agreement of its meterpoint
\* (valid_to = the reading's date) is counted under that agreement's product,
\* and a reading before the start of an agreement of its meterpoint is not.
C12_Witness ==
    /\ DailyCall
    /\ \E m \in ValidMatches, k \in DOMAIN df_product :
            /\ df_agreement[m[2]].agreement_valid_to = Some(ReadingDate(m[1]))
            /\ df_product[k].product_id = df_agreement[m[2]].product_id
            /\ DailyRows(df_product[k].display_name, ReadingDate(m[1])) # {}
    /\ \E i \in DOMAIN df_readings, j \in DOMAIN df_agreement, k \in DOMAIN df_product :
            /\ SameMeterpoint(i, j)
            /\ DateKey(df_agreement[j].agreement_valid_from) > DateKey(ReadingDate(i))
            /\ df_product[k].product_id = df_agreement[j].product_id
            /\ DailyRows(df_product[k].display_name, ReadingDate(i)) = {}

\* C13: get_daily_product_consumption returns at most one row for each
\* (product display name, date); its total_consumption_kwh is the sum of
\* consumption_delta over all (reading, valid agreement) matches of that
\* product on that date, and its meterpoint_count the number of distinct
\* meterpoints among those matches.
C13_OneRowPerProductDate ==
    DailyCall =>
        \A name \in MatchedNames, d \in ReadingDates :
            /\ Cardinality(DailyRows(name, d)) <= 1
            /\ \A i \in DailyRows(name, d) :
                    /\ result[i].total_consumption_kwh =
                            SumOver(MatchesOf(name, d), MatchDelta(MatchesOf(name, d)))
                    /\ result[i].meterpoint_count =
                            Cardinality({df_readings[t[1][1]].meterpoint_id : t \in MatchesOf(name, d)})

\* C13 witness: two readings of one meterpoint on one day under one valid
\* agreement: one row, both readings added up, the meterpoint counted once;
\* the product has no row on any other date.
C13_Witness ==
    /\ DailyCall
    /\ Len(df_readings) = 2
    /\ df_readings[1].meterpoint_id = df_readings[2].meterpoint_id
    /\ df_readings[1].interval_start # df_readings[2].interval_start
    /\ ReadingDate(1) = ReadingDate(2)
    /\ Len(result) = 1
    /\ result[1].meterpoint_count = 1
    /\ result[1].total_consumption_kwh =
            df_readings[1].consumption_delta + df_readings[2].consumption_delta

\* C14: fan-out: when two agreements of one meterpoint are both valid on a
\* reading's date the reading matches both and is counted once for each, with
\* no deduplication: the totals of the output add up to the consumption_delta
\* of all (reading, valid agreement, product row) matches.
C14_FanOutDoubleCounts ==
    DailyCall =>
        SumOver(DOMAIN result, [i \in DOMAIN result |-> result[i].total_consumption_kwh])
            = SumOver(UNION {MatchesOf(name, d) : name \in MatchedNames, d \in ReadingDates},
                      MatchDelta(UNION {MatchesOf(name, d) : name \in MatchedNames, d \in ReadingDates}))

\* C14 witness: one reading, two agreements of its meterpoint both valid on
\* its date, each with a product row: the output holds the reading's
\* consumption twice.
C14_Witness ==
    /\ DailyCall
    /\ Len(df_readings) = 1
    /\ Cardinality(ValidMatches) = 2
    /\ Len(result) = 2
    /\ result[1].total_consumption_kwh + result[2].total_consumption_kwh
            = 2 * df_readings[1].consumption_delta

SortedByDateProduct ==
    \A i, j \in DOMAIN result :
        i < j =>
            \/ DateKey(result[i].date) < DateKey(result[j].date)
            \/ /\ result[i].date = result[j].date
               /\ NameKey(result[i].product_display_name[1]) <= NameKey(result[j].product_display_name[1])

\* C15: the rows of get_daily_product_consumption are ordered by date and,
\* within a date, by product display name, both ascending.
C15_OrderedByDateThenProduct ==
    DailyCall => SortedByDateProduct

\* C15 witness: a product later in the alphabet has the earlier date, so the
\* order by date is not the order by name.
C15_Witness ==
    /\ DailyCall
    /\ \E i, j \in DOMAIN result :
            /\ i < j
            /\ DateKey(result[i].date) < DateKey(result[j].date)
            /\ NameKey(result[i].product_display_name[1]) > NameKey(result[j].product_display_name[1])

\* The (reading, valid agreement) matches whose product has no row in the
\* product table.
MatchesWithoutProduct == {m \in ValidMatches : ~HasProduct(df_agreement[m[2]])}

\* C19: with an empty product table, or one that lacks the product,
\* get_daily_product_consumption raises nothing and a reading with a valid
\* agreement but no product row still appears in the output, in a row of its
\* date under a null product display name.
C19_NullProductPropagated ==
    call.op = "get_daily_product_consumption" =>
        /\ raised = "none"
        /\ \A m \in MatchesWithoutProduct :
                \E i \in DOMAIN result :
                    /\ result[i].product_display_name = NULL
                    /\ result[i].date = ReadingDate(m[1])

\* C19, what the code does: nothing is raised, and the matches without a
\* product row are in no row of the output.
C19_NullProductDropped ==
    call.op = "get_daily_product_consumption" =>
        /\ raised = "none"
        /\ \A i \in DOMAIN result : result[i].product_display_name # NULL
        /\ df_product = <<>> => result = <<>>

-----------------------------------------------------------------------------
(* Properties of the transformer as a whole *)

\* The table an operation returns for the tables as they are now.
ReturnedNow ==
    IF call.op = "get_active_agreements"
    THEN get_active_agreements(df_agreement, df_product,
            NormalizeReferenceDate(call.reference_date).text)
    ELSE IF call.op = "get_active_agreements_2021"
    THEN get_active_agreements_2021(df_agreement, df_product)
    ELSE IF call.op = "get_halfhourly_consumption"
    THEN get_halfhourly_consumption(df_readings)
    ELSE get_daily_product_consumption(df_readings, df_agreement, df_product)

\* A step of one of the operations of a constructed transformer.
OperationStep == call.op # "none" /\ call'.op # "__init__"

\* C16: idempotence and determinism: an operation leaves the tables as they
\* were, the same call made again returns the same table, and whatever was
\* called before, the table returned is the one the operation computes from
\* the tables and the reference date alone.
C16_Idempotent ==
    /\ [][OperationStep =>
            /\ tables' = tables
            /\ (call' = call => (result' = result /\ raised' = raised))]_vars
    /\ []((call.op \notin {"none", "__init__"} /\ raised = "none") => result = ReturnedNow)

\* C16 witness: the daily aggregation has returned a table with a row, from
\* tables that the other operations return rows from as well.
C16_Witness ==
    /\ DailyCall
    /\ result # <<>>
    /\ get_halfhourly_consumption(df_readings) # <<>>
    /\ get_active_agreements_2021(df_agreement, df_product) # <<>>

\* C17: the transform never mutates its inputs: the constructor and the
\* three operations leave the caller's four tables as they were, rows,
\* columns and values.
C17_InputsNeverMutated == [][tables' = tables]_vars

\* C17, the part that holds: the operations of a constructed transformer
\* leave the four tables as they were.
C17_OperationsLeaveInputs == [][OperationStep => tables' = tables]_vars

MeterpointIds == {df_meterpoint[k].meterpoint_id : k \in DOMAIN df_meterpoint}

\* C18: referential invariant: no row of the active-agreements output names
\* a meterpoint_id that is not in the meterpoint table, or has a display
\* name without a row of the product table; no row of the half-hourly or
\* daily output counts a meterpoint that is not in the meterpoint table.
C18_ReferentialIntegrity ==
    /\ (call.op \in {"get_active_agreements", "get_active_agreements_2021"} /\ raised = "none") =>
            \A i \in DOMAIN result :
                /\ result[i].meterpoint_id \in MeterpointIds
                /\ result[i].display_name # NULL =>
                        \E k \in DOMAIN df_product :
                            df_product[k].display_name = result[i].display_name[1]
    /\ HalfhourlyCall =>
            \A i \in DOMAIN result :
                result[i].meterpoint_count <=
                    Cardinality({df_readings[j].meterpoint_id : j \in ReadingsAt(result[i].datetime)}
                                    \cap MeterpointIds)
    /\ DailyCall =>
            \A i \in DOMAIN result :
                result[i].meterpoint_count <=
                    Cardinality({df_readings[j].meterpoint_id :
                                    j \in {r \in DOMAIN df_readings : ReadingDate(r) = result[i].date}}
                                    \cap MeterpointIds)

\* C18, the part that holds: a display name in the active-agreements output
\* is the name of a row of the product table with the agreement's product_id.
C18_ProductsAreKnown ==
    (call.op \in {"get_active_agreements", "get_active_agreements_2021"} /\ raised = "none") =>
        \A i \in DOMAIN result :
            result[i].display_name # NULL =>
                \E k \in DOMAIN df_product, j \in DOMAIN df_agreement :
                    /\ df_agreement[j].agreement_id = result[i].agreement_id
                    /\ df_product[k].product_id = df_agreement[j].product_id
                    /\ df_product[k].display_name = result[i].display_name[1]

-----------------------------------------------------------------------------
(* Properties of load_json_readings *)

LoaderCall == call.op \in {"extraction.load_json_readings", "data_ingestion.load_json_readings"}

\* The files the contract accepts: they parse, have the two lists, the
\* column set is exactly the expected one and every row has its three cells.
Acceptable(file) ==
    /\ file.parses
    /\ file.has_keys
    /\ Range(file.columns) = ExpectedColumns
    /\ ~DataFrameRaises(file)

AcceptableRows == Concat(Frames(SelectSeq(files, Acceptable)))

\* How many times a row is in a table.
Occurrences(df, row) == Cardinality({k \in DOMAIN df : df[k] = row})

\* The two tables have the same rows, each as many times.
SameRows(a, b) ==
    /\ Len(a) = Len(b)
    /\ \A k \in DOMAIN a : Occurrences(a, a[k]) = Occurrences(b, a[k])

\* C20: load_json_readings accepts a file only if it parses and its column
\* set is exactly {interval_start, consumption_delta, meterpoint_id}; the
\* other files are skipped without aborting the load, and the table returned
\* has exactly the rows of the accepted files.
C20_OnlyValidFilesAreLoaded ==
    LoaderCall =>
        /\ AcceptableRows # <<>> => raised = "none"
        /\ raised \in {"none", "ValueError"}
        /\ raised = "none" => SameRows(result, AcceptableRows)

\* C20, the part that holds: the property for the loader of
\* src/data_ingestion, which validates the column set.
C20_ValidatingLoaderOnly ==
    call.op = "data_ingestion.load_json_readings" =>
        /\ AcceptableRows # <<>> => raised = "none"
        /\ raised \in {"none", "ValueError"}
        /\ raised = "none" => SameRows(result, AcceptableRows)

\* The files the loader that was called has appended to its list.
AcceptedByLoader ==
    IF call.op = "extraction.load_json_readings"
    THEN Appended(files)
    ELSE AppendedValidated(files)

\* C21: load_json_readings fails with ValueError ("no valid JSON files")
\* exactly when it accepted no file (an empty folder, or every file
\* rejected), and then returns no table; with at least one accepted file it
\* raises nothing and returns a table.
C21_ValueErrorIffNothingAccepted ==
    LoaderCall =>
        /\ (raised = "ValueError") <=> (AcceptedByLoader = <<>>)
        /\ AcceptedByLoader = <<>> => result = <<>>
        /\ AcceptedByLoader # <<>> => raised = "none"

\* C21, the part that holds: ValueError is raised exactly when no file was
\* accepted, and the validating loader of src/data_ingestion returns a table
\* whenever it accepted a file.
C21_ValueErrorHalf ==
    LoaderCall =>
        /\ (raised = "ValueError") <=> (AcceptedByLoader = <<>>)
        /\ AcceptedByLoader = <<>> => result = <<>>
        /\ (call.op = "data_ingestion.load_json_readings" /\ AcceptedByLoader # <<>>) =>
                raised = "none"

\* The orders the rows of a table can be delivered in.
RowOrders(s) ==
    {[i \in DOMAIN s |-> s[p[i]]] :
        p \in {q \in [DOMAIN s -> DOMAIN s] : Injective(q)}}

\* C22: order independence: the half-hourly and the daily table are the same
\* for every order of the rows of the readings table (whatever the loader's
\* sort_data and the order of the files).
C22_OrderIndependent ==
    /\ HalfhourlyCall =>
            \A readings \in RowOrders(df_readings) :
                get_halfhourly_consumption(readings) = result
    /\ DailyCall =>
            \A readings \in RowOrders(df_readings) :
                get_daily_product_consumption(readings, df_agreement, df_product) = result

\* C22 witness: the half-hourly table was computed from two different
\* readings of one interval, listed against the order of their meterpoints.
C22_Witness ==
    /\ HalfhourlyCall
    /\ Len(df_readings) = 2
    /\ df_readings[1].interval_start = df_readings[2].interval_start
    /\ df_readings[1].meterpoint_id = "M2"
    /\ df_readings[2].meterpoint_id = "M1"
    /\ df_readings[1].consumption_delta # df_readings[2].consumption_delta
    /\ result # <<>>

\* C23: the half-hourly and the daily table do not depend on the reference
\* date given to get_active_agreements: called after it, whatever date it was
\* given, they return the table computed from the tables alone.
C23_IndependentOfReferenceDate ==
    [][(/\ call.op = "get_active_agreements"
        /\ call'.op \in {"get_halfhourly_consumption", "get_daily_product_consumption"})
            => result' = IF call'.op = "get_halfhourly_consumption"
                         THEN get_halfhourly_consumption(df_readings)
                         ELSE get_daily_product_consumption(df_readings, df_agreement,
                                                            df_product)]_vars

\* C23 witness: the daily table has a row although on one of the reference
\* days get_active_agreements returns no agreement.
C23_Witness ==
    /\ DailyCall
    /\ result # <<>>
    /\ \E d \in ReferenceDays :
            get_active_agreements(df_agreement, df_product, strftime(d)) = <<>>

\* The readings that have an agreement of their meterpoint valid on their date.
WithValidAgreement == {m[1] : m \in ValidMatches}

\* The readings table without its i-th row.
WithoutReading(i) ==
    [k \in 1..(Len(df_readings) - 1) |-> IF k < i THEN df_readings[k] ELSE df_readings[k + 1]]

\* No two agreements of one meterpoint are valid on a common day.
NoOverlap ==
    \A i, j \in DOMAIN df_agreement :
        (i # j /\ df_agreement[i].meterpoint_id = df_agreement[j].meterpoint_id) =>
            \/ /\ df_agreement[i].agreement_valid_to # NULL
               /\ DateKey(df_agreement[i].agreement_valid_to[1]) <
                        DateKey(df_agreement[j].agreement_valid_from)
            \/ /\ df_agreement[j].agreement_valid_to # NULL
               /\ DateKey(df_agreement[j].agreement_valid_to[1]) <
                        DateKey(df_agreement[i].agreement_valid_from)

EveryProductExists == \A j \in DOMAIN df_agreement : HasProduct(df_agreement[j])

TotalConsumption ==
    SumOver(DOMAIN result, [i \in DOMAIN result |-> result[i].total_consumption_kwh])

\* The part of C29 that needs no precondition: a reading without a valid
\* agreement contributes to no row (without it the output is the same), and
\* the conservation of the total under the given preconditions.
Conservation ==
    /\ \A i \in (DOMAIN df_readings) \ WithValidAgreement :
            get_daily_product_consumption(WithoutReading(i), df_agreement, df_product) = result
    /\ TotalConsumption =
            SumOver(WithValidAgreement,
                    [i \in WithValidAgreement |-> df_readings[i].consumption_delta])
    /\ TotalConsumption <=
            SumOver(DOMAIN df_readings,
                    [i \in DOMAIN df_readings |-> df_readings[i].consumption_delta])

-----------------------------------------------------------------------------
(* The pipeline: src/pipelines/etl.py over loading/db_writer.py *)

\* The files the pipeline is run on: files of the expected columns, and files
\* that are no JSON.
EtlFiles ==
    {file \in FileContents :
        ~file.parses \/ (validate_json_structure(file) /\ ~DataFrameRaises(file))}

\* The reference dates run_etl is called with: its default '2022-06-15', a
\* day before every agreement, and a string that is no date.
EtlReferenceDates ==
    {[kind |-> "str", date |-> NoDate, text |-> strftime(<<2022, 6, 15>>)],
     [kind |-> "str", date |-> NoDate, text |-> strftime(<<2019, 12, 31>>)],
     [kind |-> "str", date |-> NoDate, text |-> <<"a", "b", "c">>]}

\* A row of the loader's frame as a row of the readings table.
ReadingOf(row) ==
    [meterpoint_id |-> row["meterpoint_id"][1],
     interval_start |-> row["interval_start"][1],
     consumption_delta |-> row["consumption_delta"][1]]

\* db_writer.py, lines 168-186: SELECT MAX(interval_start), None for a
\* missing or empty table.
get_latest_reading_timestamp(table) ==
    IF table = <<>> THEN NULL
    ELSE Some(CHOOSE t \in {table[i].interval_start : i \in DOMAIN table} :
                \A i \in DOMAIN table : TsKey(table[i].interval_start) <= TsKey(t))

\* etl.py, lines 44-45: if start_date: df[df['interval_start'] > start_date]
FilterAfter(readings, start_date) ==
    IF start_date = NULL THEN readings
    ELSE SelectSeq(readings, LAMBDA r : TsKey(r.interval_start) > TsKey(start_date[1]))

\* etl.py, lines 38-62: extract_data(start_date) on the files of the folder.
extract_data(folder, start_date) ==
    LET outcome == Combine(Frames(Appended(folder)))
    IN IF outcome.raised # "none"
       THEN [raised |-> outcome.raised, readings |-> <<>>]
       ELSE [raised |-> "none",
             readings |-> FilterAfter([k \in DOMAIN outcome.table |-> ReadingOf(outcome.table[k])],
                                      start_date)]

\* Faulty key: no primary key on the table.
DuplicateKey_None(table, row) == FALSE

\* PRIMARY KEY (meterpoint_id, interval_start), db_writer.py line 201.
DuplicateKey(table, row) ==
    \E i \in DOMAIN table :
        /\ table[i].meterpoint_id = row.meterpoint_id
        /\ table[i].interval_start = row.interval_start

\* cur.copy_from: the rows are inserted one after the other in the open
\* transaction, up to the first one that violates the primary key.
RECURSIVE copy_from(_, _)
copy_from(table, batch) ==
    IF batch = <<>> THEN [failed |-> FALSE, table |-> table]
    ELSE IF DuplicateKey(table, Head(batch)) THEN [failed |-> TRUE, table |-> table]
    ELSE copy_from(Append(table, Head(batch)), Tail(batch))

\* Faulty load: the rows copied before the failure stay in the table.
load_raw_readings_NoRollback(table, batch) ==
    LET copied == copy_from(table, batch)
    IN [raised |-> IF copied.failed THEN "UniqueViolation" ELSE "none",
        table |-> copied.table]

\* db_writer.py, lines 225-250: copy and commit, or rollback and re-raise.
load_raw_readings(table, batch) ==
    LET copied == copy_from(table, batch)
    IN IF copied.failed
       THEN [raised |-> "UniqueViolation", table |-> table]
       ELSE [raised |-> "none", table |-> copied.table]

\* Faulty write: if_exists='append'.
to_sql_Append(table, df) == table \o df

\* df.to_sql(..., if_exists='replace'): the table is dropped and created
\* again from the frame.
to_sql(table, df) == df

\* db_writer.py, line 287: df['reference_date'] = pd.to_datetime(reference_date)
WithReferenceDate(df, reference_date) ==
    [i \in DOMAIN df |->
        [c \in (DOMAIN df[i]) \cup {"reference_date"} |->
            IF c = "reference_date" THEN Timestamp(reference_date.text).date ELSE df[i][c]]]

\* The run has ended: run_etl exits with the status, the playground script
\* prints the exception and ends.
Exit(r, status, exception) ==
    [r EXCEPT !.pc = "exited", !.exit_status = status, !.raised = exception]

\* sys.exit(1) in run_etl (etl.py line 177); the playground script prints the
\* exception and returns.
FailureStatus(r) == IF r.entry = "run_etl" THEN 1 ELSE 0

\* A file is put into the readings folder between two runs.
AddFile(file) ==
    /\ run.pc \in {"none", "exited"}
    /\ Len(files) < MaxFiles
    /\ files' = Append(files, file)
    /\ UNCHANGED <<tables, call, raised, result, db, run>>

\* etl.py, lines 146-153: run_etl(reference_date) starts, takes the latest
\* stored interval_start.
RunEtl(reference_date) ==
    /\ run.pc \in {"none", "exited"}
    /\ run' = [NoRun EXCEPT !.entry = "run_etl",
                            !.pc = "extract_data",
                            !.reference_date = reference_date,
                            !.written_reference_date = reference_date,
                            !.latest_ts = get_latest_reading_timestamp(db.raw_meter_readings),
                            !.loaded_folder = run.loaded_folder]
    /\ UNCHANGED <<tables, files, call, raised, result, db>>

\* Faulty step: a failed extraction is logged and the run goes on with no
\* reading.
ExtractData_Continue ==
    /\ run.pc = "extract_data"
    /\ LET outcome == extract_data(files, run.latest_ts)
       IN run' = [run EXCEPT !.pc = "store_raw_data",
                             !.folder = files,
                             !.readings = outcome.readings,
                             !.steps = IF outcome.raised = "none"
                                       THEN Append(@, "extract_data") ELSE @]
    /\ UNCHANGED <<tables, files, call, raised, result, db>>

\* etl.py, lines 155-156: step 1, extract_data(start_date=latest_ts).
ExtractData ==
    /\ run.pc = "extract_data"
    /\ LET outcome == extract_data(files, run.latest_ts)
       IN run' = IF outcome.raised # "none"
                 THEN Exit([run EXCEPT !.folder = files], 1, outcome.raised)
                 ELSE [run EXCEPT !.pc = "store_raw_data",
                                  !.folder = files,
                                  !.readings = outcome.readings,
                                  !.steps = Append(@, "extract_data")]
    /\ UNCHANGED <<tables, files, call, raised, result, db>>

\* etl.py, lines 158-160 and 64-95: step 2, store_raw_data; the reference
\* tables are replaced by the copies of the source tables.
StoreRawData ==
    /\ run.pc = "store_raw_data"
    /\ LET outcome == load_raw_readings(db.raw_meter_readings, run.readings)
       IN /\ db' = [db EXCEPT !.raw_meter_readings = outcome.table]
          /\ run' = IF outcome.raised # "none"
                    THEN Exit(run, 1, outcome.raised)
                    ELSE [run EXCEPT !.pc = "transform_data",
                                     !.loaded_folder = Some(run.folder),
                                     !.steps = Append(@, "store_raw_data")]
    /\ UNCHANGED <<tables, files, call, raised, result>>

\* etl.py, lines 162-164 and 97-124: step 3, transform_data: the transformer
\* is built on the raw tables read back and its three operations are called.
TransformData ==
    /\ run.pc = "transform_data"
    /\ df_readings' = db.raw_meter_readings
    /\ LET norm == NormalizeReferenceDate(run.reference_date)
       IN run' = IF norm.raises
                 THEN Exit(run, 1, "ValueError")
                 ELSE IF ~Timestamp(norm.text).parses
                 THEN Exit(run, 1, "TypeError")
                 ELSE [run EXCEPT
                        !.pc = "write_active_agreements",
                        !.active_agreements =
                            get_active_agreements(df_agreement, df_product, norm.text),
                        !.halfhourly_consumption =
                            get_halfhourly_consumption(db.raw_meter_readings),
                        !.daily_product_consumption =
                            get_daily_product_consumption(db.raw_meter_readings,
                                                          df_agreement, df_product),
                        !.steps = Append(@, "transform_data")]
    /\ UNCHANGED <<df_agreement, df_product, df_meterpoint, interval_start_dtype,
                   files, call, raised, result, db>>

\* db_writer.py, lines 276-297: write_active_agreements(df, reference_date);
\* the database may refuse the write.
WriteActiveAgreements ==
    /\ run.pc = "write_active_agreements"
    /\ \E written \in BOOLEAN :
        IF written
        THEN /\ db' = [db EXCEPT !.active_agreements =
                        to_sql(@, WithReferenceDate(run.active_agreements,
                                                    run.written_reference_date))]
             /\ run' = [run EXCEPT !.pc = "write_halfhourly_consumption",
                                   !.steps = Append(@, "write_active_agreements")]
        ELSE /\ db' = db
             /\ run' = Exit(run, FailureStatus(run), "OperationalError")
    /\ UNCHANGED <<tables, files, call, raised, result>>

\* db_writer.py, lines 299-318: write_halfhourly_consumption(df)
WriteHalfhourlyConsumption ==
    /\ run.pc = "write_halfhourly_consumption"
    /\ \E written \in BOOLEAN :
        IF written
        THEN /\ db' = [db EXCEPT !.halfhourly_consumption =
                        to_sql(@, run.halfhourly_consumption)]
             /\ run' = [run EXCEPT !.pc = "write_daily_product_consumption",
                                   !.steps = Append(@, "write_halfhourly_consumption")]
        ELSE /\ db' = db
             /\ run' = Exit(run, FailureStatus(run), "OperationalError")
    /\ UNCHANGED <<tables, files, call, raised, result>>

\* db_writer.py, lines 320-339: write_daily_product_consumption(df); after it
\* store_transformed_data returns and the run ends with success.
WriteDailyProductConsumption ==
    /\ run.pc = "write_daily_product_consumption"
    /\ \E written \in BOOLEAN :
        IF written
        THEN /\ db' = [db EXCEPT !.daily_product_consumption =
                        to_sql(@, run.daily_product_consumption)]
             /\ run' = Exit([run EXCEPT
                                !.steps = Append(@, "write_daily_product_consumption")],
                            0, "none")
        ELSE /\ db' = db
             /\ run' = Exit(run, FailureStatus(run), "OperationalError")
    /\ UNCHANGED <<tables, files, call, raised, result>>

\* playground/test_pipeline.py, lines 22-94: the script loads the files and
\* the source tables, builds the transformer on them and computes the three
\* tables for reference_date = '2022-06-15'; it passes '2021-01-01' to
\* write_active_agreements (line 101).
PlaygroundMain ==
    /\ run.pc \in {"none", "exited"}
    /\ LET outcome == extract_data(files, NULL)
           started == [NoRun EXCEPT !.entry = "playground",
                                    !.folder = files,
                                    !.loaded_folder = run.loaded_folder]
           reference_date == [kind |-> "str", date |-> NoDate,
                              text |-> strftime(<<2022, 6, 15>>)]
       IN IF outcome.raised # "none"
          THEN /\ run' = Exit(started, 0, outcome.raised)
               /\ df_readings' = df_readings
          ELSE /\ df_readings' = outcome.readings
               /\ run' = [started EXCEPT
                            !.pc = "create_analytics_schema",
                            !.reference_date = reference_date,
                            !.written_reference_date =
                                [kind |-> "str", date |-> NoDate,
                                 text |-> strftime(<<2021, 1, 1>>)],
                            !.readings = outcome.readings,
                            !.active_agreements =
                                get_active_agreements(df_agreement, df_product,
                                                      reference_date.text),
                            !.halfhourly_consumption =
                                get_halfhourly_consumption(outcome.readings),
                            !.daily_product_consumption =
                                get_daily_product_consumption(outcome.readings,
                                                              df_agreement, df_product),
                            !.steps = <<"extract_data", "transform_data">>]
    /\ UNCHANGED <<df_agreement, df_product, df_meterpoint, interval_start_dtype,
                   files, call, raised, result, db>>

\* playground/test_pipeline.py, line 98: writer.create_analytics_schema().
\* The method is defined by the writer of src/data_loading and not by the one
\* of src/loading/db_writer.py; which class src.loading exports is not in
\* the sources, so the call either returns or raises AttributeError.
CreateAnalyticsSchema ==
    /\ run.pc = "create_analytics_schema"
    /\ \E defined \in BOOLEAN :
        run' = IF defined
               THEN [run EXCEPT !.pc = "write_active_agreements"]
               ELSE Exit(run, 0, "AttributeError")
    /\ UNCHANGED <<tables, files, call, raised, result, db>>

\* The pipeline on a fresh database and an empty readings folder; the source
\* tables are the sample tables.
InitEtl ==
    /\ df_readings = <<>>
    /\ df_agreement = SampleAgreements
    /\ df_product = SampleProducts
    /\ df_meterpoint = SampleMeterpoints
    /\ interval_start_dtype = "datetime64[ns]"
    /\ files = <<>>
    /\ call = [op |-> "none", reference_date |-> NoArg]
    /\ raised = "none"
    /\ result = <<>>
    /\ db = EmptyDatabase
    /\ run = NoRun

NextEtl ==
    \/ \E file \in EtlFiles : AddFile(file)
    \/ \E reference_date \in EtlReferenceDates : RunEtl(reference_date)
    \/ ExtractData
    \/ StoreRawData
    \/ TransformData
    \/ WriteActiveAgreements
    \/ WriteHalfhourlyConsumption
    \/ WriteDailyProductConsumption
    \/ PlaygroundMain
    \/ CreateAnalyticsSchema

SpecEtl == InitEtl /\ [][NextEtl]_vars

-----------------------------------------------------------------------------
(* Properties of the pipeline *)

\* The steps of run_etl in the order of etl.py, lines 155-170; step 4,
\* store_transformed_data, is its three writes.
EtlOrder ==
    <<"extract_data", "store_raw_data", "transform_data", "write_active_agreements",
      "write_halfhourly_consumption", "write_daily_product_consumption">>

IsPrefix(s, t) == Len(s) <= Len(t) /\ s = SubSeq(t, 1, Len(s))

\* The three analytics tables.
analytics ==
    <<db.active_agreements, db.halfhourly_consumption, db.daily_product_consumption>>

\* The run has completed store_transformed_data.
StoreTransformedCompleted ==
    /\ run.pc = "exited"
    /\ run.raised = "none"
    /\ run.steps # <<>>
    /\ run.steps[Len(run.steps)] = "write_daily_product_consumption"

\* C24: run_etl runs extract, store raw, transform, store transformed in that
\* order; a failure in any step ends the run with exit status 1 and no later
\* step executes, so the analytics tables are written only in a run whose
\* extraction, raw storage and transformation succeeded.
C24_StepsInOrderStopOnFailure ==
    /\ [](run.entry = "run_etl" =>
            /\ IsPrefix(run.steps, EtlOrder)
            /\ run.raised # "none" => (run.pc = "exited" /\ run.exit_status = 1)
            /\ run.exit_status = 0 => run.steps = EtlOrder)
    /\ [][(run.entry = "run_etl" /\ run.exit_status = 1) =>
            /\ db' = db
            /\ run' # run => (run'.entry = "playground" \/ run'.pc = "extract_data")]_vars
    /\ [][(run.entry = "run_etl" /\ analytics' # analytics) =>
            /\ run.raised = "none"
            /\ IsPrefix(SubSeq(EtlOrder, 1, 3), run.steps)]_vars

\* C24 witness: a run that stored raw readings ended with status 1 in the
\* transformation, and no analytics table has a row.
C24_Witness ==
    /\ run.entry = "run_etl"
    /\ run.exit_status = 1
    /\ run.steps = <<"extract_data", "store_raw_data">>
    /\ db.raw_meter_readings # <<>>
    /\ analytics = <<<<>>, <<>>, <<>>>>

\* The rows of active_agreements without the column the writer adds.
WithoutReferenceDate(table) ==
    [i \in DOMAIN table |->
        [c \in (DOMAIN table[i]) \ {"reference_date"} |-> table[i][c]]]

\* C25: full replace: after store_transformed_data has completed, each of the
\* three analytics tables holds exactly the rows of that run's transform
\* output, whatever earlier runs wrote.
C25_FullReplace ==
    StoreTransformedCompleted =>
        /\ WithoutReferenceDate(db.active_agreements) = run.active_agreements
        /\ db.halfhourly_consumption = run.halfhourly_consumption
        /\ db.daily_product_consumption = run.daily_product_consumption

\* C25 witness: a run that found readings stored by an earlier run has
\* completed; its active agreements are none, its half-hourly table has rows.
C25_Witness ==
    /\ StoreTransformedCompleted
    /\ run.entry = "run_etl"
    /\ run.latest_ts # NULL
    /\ db.active_agreements = <<>>
    /\ db.halfhourly_consumption # <<>>

UniqueKeys(table) ==
    \A i, j \in DOMAIN table :
        (/\ table[i].meterpoint_id = table[j].meterpoint_id
         /\ table[i].interval_start = table[j].interval_start) => i = j

C27_NoReadingLost ==
    (run.entry = "run_etl" /\ run.exit_status = 0) =>
        Range(extract_data(run.folder, NULL).readings) \subseteq Range(db.raw_meter_readings)

\* C27, the part that holds: the readings later than the latest one stored
\* when the run began are in raw_meter_readings.
C27_LaterReadingsStored ==
    (run.entry = "run_etl" /\ run.exit_status = 0) =>
        Range(extract_data(run.folder, run.latest_ts).readings)
            \subseteq Range(db.raw_meter_readings)

\* C28: load_raw_readings is all or nothing: when the copy fails the
\* transaction is rolled back, the error is raised again (the run ends with
\* status 1) and the table is as it was; when it succeeds the table holds
\* its previous rows and every row of the batch.
C28_AllOrNothing ==
    [][(run.pc = "store_raw_data" /\ run'.pc # "store_raw_data") =>
            IF run'.raised # "none"
            THEN /\ db'.raw_meter_readings = db.raw_meter_readings
                 /\ run'.pc = "exited" /\ run'.exit_status = 1
            ELSE db'.raw_meter_readings = db.raw_meter_readings \o run.readings]_vars

\* C28 witness: a batch with rows has failed on a duplicate key and the run
\* has ended with status 1.
C28_Witness ==
    /\ run.entry = "run_etl"
    /\ run.pc = "exited"
    /\ run.raised = "UniqueViolation"
    /\ run.exit_status = 1
    /\ run.readings # <<>>

C30_RunEtlPersistsItsDate ==
    (run.entry = "run_etl" /\ "write_active_agreements" \in Range(run.steps)) =>
        \A i \in DOMAIN db.active_agreements :
            db.active_agreements[i]["reference_date"] =
                Timestamp(NormalizeReferenceDate(run.reference_date).text).date

====
